---- MODULE Spec2Model ----
(***************************************************************************)
(* doryen-rs, src/app.rs: the application core.  App::new builds the App,  *)
(* set_engine stores the user engine, run() loads the font, moves the      *)
(* window / console / input / engine / program / GL context out of the App *)
(* and hands a frame closure to the platform, which calls it once per      *)
(* frame.  The closure runs the fixed-timestep loop (load_async_images and *)
(* engine.update per due tick), then engine.render, the FPS step and the   *)
(* draw of the console quad.                                               *)
(*                                                                         *)
(* Time.  uni_app::now() returns f64 seconds.  The model measures time in  *)
(* integer units with SKIP_TICKS = Quantum units per tick, i.e. the clock  *)
(* is read with a resolution of 1/Quantum of a tick and the additions of   *)
(* SKIP_TICKS are exact.                                                   *)
(*                                                                         *)
(* Panics.  A panic!() or an unwrap() of None / Err ends the process; the  *)
(* model records its cause in log.panic and moves pc to "panicked", from   *)
(* which no action is enabled.                                             *)
(***************************************************************************)
EXTENDS Integers, Sequences, FiniteSets, TLC

\* ------------------------------------------------------------ constants
\* app.rs:16-18
MAX_FRAMESKIP == 5

\* Resolution of the clock: time units per tick interval.
Quantum == 2

\* SKIP_TICKS = 1.0 / TICKS_PER_SECOND, in time units.
SKIP_TICKS == Quantum

\* AppOptions.console_width / console_height, as the caller supplies them.
console_width == 80

console_height == 25

\* ------------------------------------------------------------ bounds
\* Largest clock value the model lets now() return.
MaxTime == 26

\* Largest clock value in the loader harness.
MaxLoaderTime == 6

\* Largest clock advance between two readings of now(): two ticks more than
\* the frame-skip cap can absorb.
MaxDelta == (MAX_FRAMESKIP + 3) * SKIP_TICKS

\* Number of load_font calls the loader harness issues at most.
MaxLoads == 2

\* Pixel sizes (width, height) of the font images the decoder can return.
FontDims == {<<160, 160>>, <<135, 200>>}

\* Platform events queued between two frame callbacks, in delivery order.
EventQueues == {<<>>, <<"key">>, <<"key", "mouse">>}

\* ------------------------------------------------------------ values
NoWindow == [some |-> FALSE, w |-> 0, h |-> 0]

NoFile == [ready |-> FALSE, readOk |-> FALSE, decodeOk |-> FALSE, dim |-> <<0, 0>>]

\* Option<AsyncImage>::None
NoImage == [some |-> FALSE, id |-> 0, file |-> NoFile]

\* uni_app::fs::File as app.rs observes it: is_ready(), the outcome of
\* read_binary(), and what image::load_from_memory makes of the bytes.
Files == [ready : BOOLEAN, readOk : BOOLEAN, decodeOk : BOOLEAN, dim : FontDims]

\* The files the loader harness opens: fonts of one size.
LoaderFiles == {f \in Files : f.dim = <<160, 160>>}

\* struct AsyncImage(String, uni_app::fs::File), wrapped in Some.  id names
\* the load request that queued it.
AsyncImage(id, f) == [some |-> TRUE, id |-> id, file |-> f]

\* The App right after App::new (app.rs:54-72), with the bookkeeping the
\* properties read: log.loads counts load_font calls, log.windows counts
\* create_window calls, log.textures counts create_texture calls, log.taken
\* lists the pending assets taken out of their slot (app.rs:135), log.decoded
\* lists the load requests whose image decoded, log.panic is the cause of the
\* panic that ended the process ("" while it runs).
NewApp ==
    [self |-> [app |-> NoWindow, gl |-> FALSE, async_images |-> <<>>,
               font |-> FALSE, program |-> FALSE, con |-> TRUE,
               input |-> FALSE, engine |-> FALSE,
               font_width |-> 0, font_height |-> 0],
     log |-> [loads |-> 0, windows |-> 0, textures |-> 0, taken |-> <<>>,
              decoded |-> <<>>, panic |-> ""]]

Panicked(m) == m.log.panic # ""

Panic(m, cause) == [m EXCEPT !.log.panic = cause]

\* ------------------------------------------------------------ loader
\* A create_window that opens a window for its canvas and another to keep.
create_window_twice(m, screen_width, screen_height) ==
    [m EXCEPT !.self.program = TRUE,
              !.self.app = [some |-> TRUE, w |-> screen_width, h |-> screen_height],
              !.self.input = TRUE,
              !.self.gl = TRUE,
              !.log.windows = @ + 2]

\* App::create_window (app.rs:73-96)
create_window(m, screen_width, screen_height) ==
    [m EXCEPT !.self.program = TRUE,
              !.self.app = [some |-> TRUE, w |-> screen_width, h |-> screen_height],
              !.self.input = TRUE,
              !.self.gl = TRUE,
              !.log.windows = @ + 1]

\* A load_font_bytes that goes on with an empty image when the decode fails.
load_font_bytes_lenient(m, id, file) ==
    LET w == IF file.decodeOk THEN file.dim[1] ELSE 0
        h == IF file.decodeOk THEN file.dim[2] ELSE 0
        m1 == [m EXCEPT !.self.font_width = w, !.self.font_height = h,
                        !.log.decoded = IF file.decodeOk THEN Append(@, id) ELSE @]
        m2 == create_window(m1, console_width * (w \div 16), console_height * (h \div 16))
    IN  IF m2.self.gl
        THEN [m2 EXCEPT !.self.font = TRUE, !.log.textures = @ + 1]
        ELSE m2

\* A load_font_bytes that scales the image by the console before dividing
\* by the 16 glyphs of a row or column.
load_font_bytes_scaled(m, id, file) ==
    IF ~file.decodeOk
    THEN Panic(m, "decode")
    ELSE LET img == file.dim
             m1 == [m EXCEPT !.self.font_width = img[1],
                             !.self.font_height = img[2],
                             !.log.decoded = Append(@, id)]
             m2 == create_window(m1, (console_width * img[1]) \div 16,
                                     (console_height * img[2]) \div 16)
         IN  [m2 EXCEPT !.self.font = TRUE, !.log.textures = @ + 1]

\* App::load_font_bytes (app.rs:148-173).  image::load_from_memory(..).unwrap()
\* panics when the bytes do not decode.
load_font_bytes(m, id, file) ==
    IF ~file.decodeOk
    THEN Panic(m, "decode")
    ELSE LET img == file.dim
             m1 == [m EXCEPT !.self.font_width = img[1],
                             !.self.font_height = img[2],
                             !.log.decoded = Append(@, id)]
             char_width == img[1] \div 16
             char_height == img[2] \div 16
             screen_width == console_width * char_width
             screen_height == console_height * char_height
             m2 == create_window(m1, screen_width, screen_height)
         IN  IF m2.self.gl
             THEN [m2 EXCEPT !.self.font = TRUE, !.log.textures = @ + 1]
             ELSE m2

\* A load_font that opens the window before it reads the file.
load_font_window_first(m, opened, f) ==
    LET id == m.log.loads + 1
        m0 == [m EXCEPT !.log.loads = id]
    IN  IF ~opened THEN Panic(m0, "open")
        ELSE IF f.ready
             THEN IF f.readOk THEN load_font_bytes(m0, id, f)
                              ELSE Panic(create_window(m0, 0, 0), "read")
             ELSE [m0 EXCEPT !.self.async_images = Append(@, AsyncImage(id, f))]

\* App::load_font (app.rs:100-118) for the outcome of open_file: opened is
\* FALSE for Err, else f is the file.
load_font(m, opened, f) ==
    LET id == m.log.loads + 1
        m0 == [m EXCEPT !.log.loads = id]
    IN  IF ~opened THEN Panic(m0, "open")
        ELSE IF f.ready
             THEN IF f.readOk THEN load_font_bytes(m0, id, f)
                              ELSE Panic(m0, "read")
             ELSE [m0 EXCEPT !.self.async_images = Append(@, AsyncImage(id, f))]

\* The scan of load_async_images (app.rs:124-133): the 0-based indices of
\* the ready entries; idx advances on Some entries only.
RECURSIVE to_load(_, _, _)
to_load(images, i, idx) ==
    IF i > Len(images) THEN <<>>
    ELSE IF images[i].some
         THEN (IF images[i].file.ready THEN <<idx>> ELSE <<>>)
              \o to_load(images, i + 1, idx + 1)
         ELSE to_load(images, i + 1, idx)

\* One pass of the second loop of load_async_images (app.rs:135-143) for
\* the 0-based index idx.
load_one(m, idx) ==
    LET slot == m.self.async_images[idx + 1]
        m1 == [m EXCEPT !.self.async_images[idx + 1] = NoImage,
                        !.log.taken = Append(@, slot.id)]
    IN  IF ~slot.some THEN Panic(m, "unwrap")
        ELSE IF slot.file.readOk THEN load_font_bytes(m1, slot.id, slot.file)
             ELSE m1

\* The second loop of load_async_images (app.rs:134-144); a panic ends it.
RECURSIVE load_all(_, _, _)
load_all(m, indices, k) ==
    IF k > Len(indices) \/ Panicked(m) THEN m
    ELSE load_all(load_one(m, indices[k]), indices, k + 1)

IsSome(f) == f.some

\* self.async_images.retain(|f| f.is_some()) (app.rs:145)
retain(m) == [m EXCEPT !.self.async_images = SelectSeq(@, IsSome)]

\* App::load_async_images (app.rs:120-146)
load_async_images(m) ==
    IF Len(m.self.async_images) = 0 THEN m
    ELSE LET m1 == load_all(m, to_load(m.self.async_images, 1, 0), 1)
         IN  IF Panicked(m1) THEN m1 ELSE retain(m1)

\* ------------------------------------------------------------ run()
\* What run() moves out of the App (app.rs:177-182) and the frame closure
\* captures; input is what Input has been fed since its last on_frame.
NoClosure ==
    [installed |-> FALSE, app |-> NoWindow, con |-> FALSE, input |-> <<>>,
     engine |-> FALSE, program |-> FALSE, gl |-> FALSE]

\* A chain that borrows the slots (as_ref().unwrap()) and leaves them filled.
take_all_by_ref(m) ==
    LET s == m.self
    IN  IF ~s.app.some THEN Panic(m, "take_app")
        ELSE IF ~s.con THEN Panic(m, "take_con")
        ELSE IF ~s.input THEN Panic(m, "take_input")
        ELSE IF ~s.engine THEN Panic(m, "take_engine")
        ELSE IF ~s.program THEN Panic(m, "take_program")
        ELSE IF ~s.gl THEN Panic(m, "take_gl")
        ELSE m

\* A chain that takes the engine slot without unwrapping it.
take_all_unchecked_engine(m) ==
    LET s == m.self
    IN  IF ~s.app.some THEN Panic(m, "take_app")
        ELSE IF ~s.con THEN Panic([m EXCEPT !.self.app = NoWindow], "take_con")
        ELSE IF ~s.input
             THEN Panic([m EXCEPT !.self.app = NoWindow, !.self.con = FALSE], "take_input")
        ELSE IF ~s.program
             THEN Panic([m EXCEPT !.self.app = NoWindow, !.self.con = FALSE,
                                  !.self.input = FALSE, !.self.engine = FALSE],
                        "take_program")
        ELSE IF ~s.gl
             THEN Panic([m EXCEPT !.self.app = NoWindow, !.self.con = FALSE,
                                  !.self.input = FALSE, !.self.engine = FALSE,
                                  !.self.program = FALSE], "take_gl")
        ELSE [m EXCEPT !.self.app = NoWindow, !.self.con = FALSE,
                       !.self.input = FALSE, !.self.engine = FALSE,
                       !.self.program = FALSE, !.self.gl = FALSE]

\* The take().unwrap() chain of run() (app.rs:177-182), in source order; the
\* first empty slot panics.
take_all(m) ==
    LET s == m.self
    IN  IF ~s.app.some THEN Panic(m, "take_app")
        ELSE IF ~s.con THEN Panic([m EXCEPT !.self.app = NoWindow], "take_con")
        ELSE IF ~s.input
             THEN Panic([m EXCEPT !.self.app = NoWindow, !.self.con = FALSE], "take_input")
        ELSE IF ~s.engine
             THEN Panic([m EXCEPT !.self.app = NoWindow, !.self.con = FALSE,
                                  !.self.input = FALSE], "take_engine")
        ELSE IF ~s.program
             THEN Panic([m EXCEPT !.self.app = NoWindow, !.self.con = FALSE,
                                  !.self.input = FALSE, !.self.engine = FALSE],
                        "take_program")
        ELSE IF ~s.gl
             THEN Panic([m EXCEPT !.self.app = NoWindow, !.self.con = FALSE,
                                  !.self.input = FALSE, !.self.engine = FALSE,
                                  !.self.program = FALSE], "take_gl")
        ELSE [m EXCEPT !.self.app = NoWindow, !.self.con = FALSE,
                       !.self.input = FALSE, !.self.engine = FALSE,
                       !.self.program = FALSE, !.self.gl = FALSE]

\* The closure run() builds from the slots it emptied (app.rs:177-184).
captured(m) ==
    [installed |-> TRUE, app |-> m.self.app, con |-> m.self.con, input |-> <<>>,
     engine |-> m.self.engine, program |-> m.self.program, gl |-> m.self.gl]

\* ------------------------------------------------------------ frame closure
Call(op, arg) == [op |-> op, arg |-> arg]

\* A feed that walks the event queue from its newest entry.
RECURSIVE feed_reversed(_, _, _)
feed_reversed(calls, queue, k) ==
    IF k > Len(queue) THEN calls
    ELSE feed_reversed(Append(calls, Call("on_event", <<queue[Len(queue) + 1 - k]>>)),
                       queue, k + 1)

\* input.on_frame(); for evt in events { input.on_event(&evt) } (app.rs:185-188)
RECURSIVE feed(_, _, _)
feed(calls, queue, k) ==
    IF k > Len(queue) THEN calls
    ELSE feed(Append(calls, Call("on_event", <<queue[k]>>)), queue, k + 1)

\* A loop condition that lets the tick run when time has reached next_tick.
tick_due_inclusive(time, next_tick, skipped_frames) ==
    time >= next_tick /\ skipped_frames < MAX_FRAMESKIP

\* The loop condition of app.rs:191.
tick_due(time, next_tick, skipped_frames) ==
    time > next_tick /\ skipped_frames < MAX_FRAMESKIP

\* A resynchronisation onto the current time itself.
resync_to_now(time, next_tick, skipped_frames) ==
    IF skipped_frames = MAX_FRAMESKIP THEN time ELSE next_tick

\* A resynchronisation whose test can never succeed.
resync_past_cap(time, next_tick, skipped_frames) ==
    IF skipped_frames > MAX_FRAMESKIP THEN time + SKIP_TICKS ELSE next_tick

\* A resynchronisation after every callback that ran a tick.
resync_always(time, next_tick, skipped_frames) ==
    IF skipped_frames >= 0 THEN time + SKIP_TICKS ELSE next_tick

\* app.rs:197-199
resync(time, next_tick, skipped_frames) ==
    IF skipped_frames = MAX_FRAMESKIP THEN time + SKIP_TICKS ELSE next_tick

\* A loop that polls the pending assets in its first iteration only, i.e.
\* once per frame.
RECURSIVE tick_loop_poll_once(_, _, _)
tick_loop_poll_once(fr, time, input) ==
    IF ~tick_due(time, fr.next_tick, fr.skipped_frames) THEN fr
    ELSE LET first == fr.skipped_frames = -1
             m1 == IF first THEN load_async_images(fr.m) ELSE fr.m
             polled == IF first
                       THEN Append(fr.calls, Call("load_async_images", <<>>))
                       ELSE fr.calls
         IN  IF Panicked(m1)
             THEN [fr EXCEPT !.m = m1, !.calls = polled]
             ELSE tick_loop_poll_once(
                      [m |-> m1,
                       next_tick |-> fr.next_tick + SKIP_TICKS,
                       skipped_frames |-> fr.skipped_frames + 1,
                       calls |-> Append(polled, Call("update", input))],
                      time, input)

\* The while loop of app.rs:191-196 on fr = [m, next_tick, skipped_frames,
\* calls]; input is what every update of this callback is handed.  A panic
\* inside load_async_images unwinds out of the loop.
RECURSIVE tick_loop(_, _, _)
tick_loop(fr, time, input) ==
    IF ~tick_due(time, fr.next_tick, fr.skipped_frames) THEN fr
    ELSE LET m1 == load_async_images(fr.m)
             polled == Append(fr.calls, Call("load_async_images", <<>>))
         IN  IF Panicked(m1)
             THEN [fr EXCEPT !.m = m1, !.calls = polled]
             ELSE tick_loop([m |-> m1,
                             next_tick |-> fr.next_tick + SKIP_TICKS,
                             skipped_frames |-> fr.skipped_frames + 1,
                             calls |-> Append(polled, Call("update", input))],
                            time, input)

\* A closure whose test of the font slot is inverted.
draw_unless_font(calls, font) ==
    IF ~font THEN Append(calls, Call("render_primitive", <<>>)) ELSE calls

\* if let Some(ref font) = self.font { .. render_primitive .. } (app.rs:202-206)
draw(calls, font) ==
    IF font THEN Append(calls, Call("render_primitive", <<>>)) ELSE calls

\* A closure that renders only after a tick ran.
render_phase_when_ticked(fr) ==
    IF fr.skipped_frames >= 0
    THEN [fr EXCEPT !.calls = draw(@ \o <<Call("render", <<>>), Call("fps_step", <<>>)>>,
                                   fr.m.self.font)]
    ELSE [fr EXCEPT !.calls = draw(Append(@, Call("fps_step", <<>>)), fr.m.self.font)]

\* A closure that moves the font texture out of its slot when it draws.
render_phase_take_font(fr) ==
    [fr EXCEPT !.calls = draw(@ \o <<Call("render", <<>>), Call("fps_step", <<>>)>>,
                              fr.m.self.font),
               !.m.self.font = FALSE]

\* engine.render, fps.step and the draw (app.rs:200-206).  FPS only counts
\* frames for a printout and feeds nothing back, so its fields are left out.
render_phase(fr) ==
    [fr EXCEPT !.calls = draw(@ \o <<Call("render", <<>>), Call("fps_step", <<>>)>>,
                              fr.m.self.font)]

\* The frame closure (app.rs:184-207) called at clock value time with the
\* platform's event queue.
frame_callback(m, next_tick, time, queue) ==
    LET calls0 == feed(<<Call("on_frame", <<>>)>>, queue, 1)
        fr0 == [m |-> m, next_tick |-> next_tick, skipped_frames |-> -1,
                calls |-> calls0]
        fr1 == tick_loop(fr0, time, queue)
        fr2 == [fr1 EXCEPT !.next_tick = resync(time, @, fr1.skipped_frames)]
    IN  IF Panicked(fr1.m) THEN fr1 ELSE render_phase(fr2)

\* ------------------------------------------------------------ state
VARIABLES
    self,       \* the App struct
    log,        \* bookkeeping of NewApp
    closure,    \* what the frame closure captured
    next_tick,  \* the closure's next_tick
    clock,      \* the last value now() returned
    pc,         \* "setup", "loop" (the platform calls the closure), "panicked"
    last        \* the latest frame callback: how many ran so far (0, 1, 2 for
                \* two or more), its time, the time of the one before, next_tick
                \* at its entry, skipped_frames at its end, its calls in order

vars == <<self, log, closure, next_tick, clock, pc, last>>

NoFrame ==
    [n |-> 0, time |-> 0, prev_time |-> 0, entry_tick |-> 0,
     skipped_frames |-> -1, calls |-> <<>>]

Init ==
    /\ self = NewApp.self
    /\ log = NewApp.log
    /\ closure = NoClosure
    /\ next_tick = 0
    /\ clock = 0
    /\ pc = "setup"
    /\ last = NoFrame

Machine == [self |-> self, log |-> log]

\* The App and its bookkeeping after an operation; a panic ends the process.
Becomes(m) ==
    /\ self' = m.self
    /\ log' = m.log
    /\ pc' = IF Panicked(m) THEN "panicked" ELSE pc

\* App::set_engine (app.rs:97-99)
SetEngine ==
    /\ pc = "setup"
    /\ self' = [self EXCEPT !.engine = TRUE]
    /\ UNCHANGED <<log, closure, next_tick, clock, pc, last>>

\* App::run up to app.run(closure) (app.rs:175-184): load_font, the takes,
\* next_tick = now().
Run ==
    /\ pc = "setup"
    /\ \E opened \in BOOLEAN, f \in Files, d \in 0..1 :
         \E m1 \in {load_font(Machine, opened, f)} :
         \E m2 \in {IF Panicked(m1) THEN m1 ELSE take_all(m1)} :
             /\ self' = m2.self
             /\ log' = m2.log
             /\ IF Panicked(m2)
                THEN /\ pc' = "panicked"
                     /\ UNCHANGED <<closure, next_tick, clock>>
                ELSE /\ pc' = "loop"
                     /\ closure' = captured(m1)
                     /\ clock' = clock + d
                     /\ next_tick' = clock + d
    /\ UNCHANGED last

\* One call of the frame closure by the platform (app.rs:184-207), d time
\* units after the last reading of the clock, which stays within limit.
FrameWithin(limit) ==
    /\ pc = "loop"
    /\ \E d \in 0..MaxDelta, queue \in EventQueues :
         \E time \in {clock + d} \cap 0..limit :
         \E fr \in {frame_callback(Machine, next_tick, time, queue)} :
             /\ clock' = time
             /\ self' = fr.m.self
             /\ log' = fr.m.log
             /\ next_tick' = fr.next_tick
             /\ pc' = IF Panicked(fr.m) THEN "panicked" ELSE "loop"
             /\ closure' = [closure EXCEPT !.input = queue]
             /\ last' = [n |-> IF last.n = 0 THEN 1 ELSE 2,
                         time |-> time,
                         prev_time |-> last.time,
                         entry_tick |-> next_tick,
                         skipped_frames |-> fr.skipped_frames,
                         calls |-> fr.calls]

Frame == FrameWithin(MaxTime)

Next == SetEngine \/ Run \/ Frame

Spec == Init /\ [][Next]_vars

\* ------------------------------------------------------------ loader harness
\* The asset loader driven as a unit: load_font issued up to MaxLoads times
\* (spec 4.1: the design must not assume exactly one pending asset), files
\* turning ready, load_async_images polled before and inside the frame loop.

\* One load_font call (app.rs:100-118).
LoadFont ==
    /\ pc = "setup"
    /\ log.loads < MaxLoads
    /\ \E opened \in BOOLEAN, f \in LoaderFiles :
         \E m1 \in {load_font(Machine, opened, f)} : Becomes(m1)
    /\ UNCHANGED <<closure, next_tick, clock, last>>

\* The platform finishes fetching a pending file: is_ready() turns true.
FileReady ==
    /\ pc \in {"setup", "loop"}
    /\ \E i \in 1..Len(self.async_images) :
         /\ ~self.async_images[i].file.ready
         /\ self' = [self EXCEPT !.async_images[i].file.ready = TRUE]
    /\ UNCHANGED <<log, closure, next_tick, clock, pc, last>>

\* One load_async_images call (app.rs:120-146) outside the frame loop.
Poll ==
    /\ pc = "setup"
    /\ Len(self.async_images) > 0
    /\ \E m1 \in {load_async_images(Machine)} : Becomes(m1)
    /\ UNCHANGED <<closure, next_tick, clock, last>>

\* run() from the takes on (app.rs:177-184).
Install ==
    /\ pc = "setup"
    /\ \E d \in 0..1 :
         \E m2 \in {take_all(Machine)} :
             /\ self' = m2.self
             /\ log' = m2.log
             /\ IF Panicked(m2)
                THEN /\ pc' = "panicked"
                     /\ UNCHANGED <<closure, next_tick, clock>>
                ELSE /\ pc' = "loop"
                     /\ closure' = captured(Machine)
                     /\ clock' = clock + d
                     /\ next_tick' = clock + d
    /\ UNCHANGED last

LoaderFrame == FrameWithin(MaxLoaderTime)

NextLoader == SetEngine \/ LoadFont \/ FileReady \/ Poll \/ Install \/ LoaderFrame

SpecLoader == Init /\ [][NextLoader]_vars

\* ------------------------------------------------------------ properties
Min(a, b) == IF a <= b THEN a ELSE b

Max(a, b) == IF a >= b THEN a ELSE b

CeilDiv(a, b) == (a + b - 1) \div b

\* Positions of the calls of op in the latest frame callback.
CallsOf(op) == {i \in DOMAIN last.calls : last.calls[i].op = op}

Updates == Cardinality(CallsOf("update"))

\* The latest frame callback ran to its end.
Returned == last.n > 0 /\ log.panic = ""

\* What the clock was ahead of next_tick at the entry of the latest callback.
Backlog == last.time - last.entry_tick

\* C1 as stated: the number of engine.update calls of a frame callback is
\* min(floor(D / tick_interval), MAX_FRAMESKIP + 1), D being the time elapsed
\* since the previous frame callback.
C1_UpdatesFromFrameDelta ==
    (Returned /\ last.n = 2) =>
        Updates = Min((last.time - last.prev_time) \div SKIP_TICKS, MAX_FRAMESKIP + 1)

\* C1 amended: the number of engine.update calls of a frame callback is
\* min(ceil(B / tick_interval), MAX_FRAMESKIP + 1), B = max(time - next_tick, 0)
\* being the backlog at the entry of that callback.
C1_UpdatesFromBacklog ==
    Returned => Updates = Min(CeilDiv(Max(Backlog, 0), SKIP_TICKS), MAX_FRAMESKIP + 1)

\* A second or later callback, below the cap, whose backlog is no whole
\* number of ticks and differs from the time since the previous callback.
C1_Witness ==
    /\ Returned /\ last.n = 2
    /\ Updates \in 1..MAX_FRAMESKIP
    /\ Backlog % SKIP_TICKS # 0
    /\ Backlog # last.time - last.prev_time

\* C2: no callback runs more than MAX_FRAMESKIP + 1 updates, and a callback
\* entered with more than MAX_FRAMESKIP + 1 ticks of backlog runs exactly
\* MAX_FRAMESKIP + 1 updates and leaves next_tick = time + tick_interval.
C2_CapAndResync ==
    Returned =>
        /\ Updates <= MAX_FRAMESKIP + 1
        /\ Backlog > (MAX_FRAMESKIP + 1) * SKIP_TICKS =>
               /\ Updates = MAX_FRAMESKIP + 1
               /\ next_tick = last.time + SKIP_TICKS

\* A callback entered two ticks or more beyond the cap.
C2_Witness ==
    /\ Returned
    /\ Backlog >= (MAX_FRAMESKIP + 3) * SKIP_TICKS
    /\ Updates = MAX_FRAMESKIP + 1
    /\ next_tick = last.time + SKIP_TICKS

\* C3: every frame callback calls engine.render exactly once, whatever the
\* number of updates it ran.
C3_RenderOncePerFrame == last.n > 0 => Cardinality(CallsOf("render")) = 1

\* A callback that rendered once without any update, right after one that
\* left next_tick ahead of the clock.
C3_Witness ==
    /\ Returned /\ last.n = 2
    /\ Updates = 0
    /\ Backlog < 0
    /\ Cardinality(CallsOf("render")) = 1

\* C4: next_tick never decreases: not from one step to the next, and the
\* resynchronisation of a callback never puts it below the value that
\* callback's increments had reached.
C4_NextTickMonotonic ==
    /\ [][next_tick' >= next_tick]_vars
    /\ [](Returned => next_tick >= last.entry_tick + Updates * SKIP_TICKS)

\* A callback that took the resynchronisation branch after its six ticks
\* had already carried next_tick past the clock.
C4_Witness ==
    /\ Returned
    /\ last.skipped_frames = MAX_FRAMESKIP
    /\ last.entry_tick + (MAX_FRAMESKIP + 1) * SKIP_TICKS > last.time
    /\ next_tick = last.time + SKIP_TICKS

\* C8: when the font file is not ready at load_font, run() still reaches the
\* frame loop (no panic) with the font pending.
C8_PendingFontReachesLoop ==
    (log.loads = 1 /\ Len(self.async_images) = 1) => pc = "loop"

\* C9: a frame callback that reaches its end draws the quad exactly once if
\* a font texture is bound then, and not at all otherwise; the draw comes
\* after the engine's render call.
C9_DrawIffFontBound ==
    Returned =>
        /\ Cardinality(CallsOf("render_primitive")) = IF self.font THEN 1 ELSE 0
        /\ \A d \in CallsOf("render_primitive") : \E r \in CallsOf("render") : r < d

\* A callback that drew once, after render, with the font bound.
C9_Witness ==
    /\ Returned
    /\ self.font
    /\ Cardinality(CallsOf("render_primitive")) = 1
    /\ \E r \in CallsOf("render") : \E d \in CallsOf("render_primitive") : r < d

\* The Some entries of the pending vector of App struct s.
PendingOf(s) == {s.async_images[i] : i \in {j \in DOMAIN s.async_images : s.async_images[j].some}}

PendingIds(s) == {a.id : a \in PendingOf(s)}

Occurrences(seq, x) == Cardinality({i \in DOMAIN seq : seq[i] = x})

Range(seq) == {seq[i] : i \in DOMAIN seq}

\* A step in which load_async_images ran: the poll before the loop, or a
\* frame callback with at least one due tick.
PollStep ==
    \/ Poll
    \/ LoaderFrame /\ \E i \in DOMAIN last'.calls : last'.calls[i].op = "load_async_images"

\* C5: a poll leaves every pending asset that is not ready in the pending
\* set, unchanged; it takes every pending asset that is ready exactly once and
\* removes it from the pending set; and it adds nothing to the pending set.
C5_PollResolvesExactlyTheReady ==
    [][PollStep =>
          /\ \A a \in PendingOf(self) :
                IF a.file.ready
                THEN /\ a.id \notin PendingIds(self')
                     /\ Occurrences(log'.taken, a.id) = Occurrences(log.taken, a.id) + 1
                ELSE a \in PendingOf(self')
          /\ PendingIds(self') \subseteq PendingIds(self)]_vars

\* A pending asset that is ready, reads, and does not decode.
Undecodable(a) == a.file.ready /\ a.file.readOk /\ ~a.file.decodeOk

\* C6: a poll that meets a ready pending asset whose bytes do not decode
\* does not end the process: the asset leaves the pending set, no window and
\* no texture is created from it, the assets that are not ready stay pending,
\* and a frame callback goes on to its render call.
C6_DecodeFailureIsNotFatal ==
    [][(PollStep /\ \E a \in PendingOf(self) : Undecodable(a)) =>
          /\ log'.panic = ""
          /\ \A a \in PendingOf(self) :
                Undecodable(a) =>
                    /\ a.id \notin PendingIds(self')
                    /\ a.id \notin Range(log'.decoded)
          /\ \A a \in PendingOf(self) : ~a.file.ready => a \in PendingOf(self')
          /\ LoaderFrame => \E i \in DOMAIN last'.calls : last'.calls[i].op = "render"]_vars

\* A pending asset that is ready and whose read fails.
Unreadable(a) == a.file.ready /\ ~a.file.readOk

\* C7: a poll that meets a ready pending asset whose read fails returns
\* normally: that asset leaves the pending set and binds no texture, every
\* other ready asset of the poll is taken too, and in a frame callback every
\* poll is followed by its update.
C7_ReadFailureStaysInsidePoll ==
    [][(PollStep /\ \E a \in PendingOf(self) : Unreadable(a)) =>
          /\ log'.panic = ""
          /\ \A a \in PendingOf(self) :
                Unreadable(a) =>
                    /\ a.id \notin PendingIds(self')
                    /\ a.id \notin Range(log'.decoded)
          /\ \A a \in PendingOf(self) : a.file.ready => a.id \in Range(log'.taken)
          /\ LoaderFrame =>
                \A i \in DOMAIN last'.calls :
                    last'.calls[i].op = "load_async_images" =>
                        /\ i < Len(last'.calls)
                        /\ last'.calls[i + 1].op = "update"]_vars

\* C10: whenever a window exists (in the App or moved into the closure) a
\* font image has been decoded, and create_window has run no more often than
\* images were decoded.
C10_WindowOnlyAfterDecode ==
    /\ (self.app.some \/ closure.app.some) => log.decoded # <<>>
    /\ log.windows <= Len(log.decoded)

\* The window created by a poll: the only image decoded so far came from a
\* pending asset.
C10_Witness ==
    /\ self.app.some
    /\ Len(log.decoded) = 1
    /\ log.decoded[1] \in Range(log.taken)

\* The window, wherever it is: in the App's slot, or moved into the closure.
Window == IF closure.installed THEN closure.app ELSE self.app

\* C11: the window is created with console_width * (W div 16) by
\* console_height * (H div 16) pixels, W x H being the decoded font image
\* and div the integer division; a 160 x 160 font on the 80 x 25 console
\* gives 800 x 250.
C11_WindowSizeFromFont ==
    Window.some =>
        /\ Window.w = console_width * (self.font_width \div 16)
        /\ Window.h = console_height * (self.font_height \div 16)
        /\ (/\ self.font_width = 160 /\ self.font_height = 160
            /\ console_width = 80 /\ console_height = 25)
               => (Window.w = 800 /\ Window.h = 250)

\* The window of a font whose sides are no multiples of 16: 135 x 200 gives
\* cells of 8 x 12 pixels.
C11_Witness ==
    /\ Window.some
    /\ self.font_width = 135 /\ self.font_height = 200
    /\ Window.w = console_width * 8 /\ Window.h = console_height * 12

\* C12: when run() ends in a fatal setup error (the font file does not
\* open, or a ready file does not read), no frame closure was installed, no
\* frame callback ran, and no window, GL context, program or input exists or
\* was ever created.
C12_SetupErrorsLeaveNothing ==
    log.panic \in {"open", "read"} =>
        /\ pc = "panicked"
        /\ ~closure.installed
        /\ last.n = 0
        /\ log.windows = 0 /\ log.textures = 0
        /\ ~self.app.some /\ ~self.gl /\ ~self.program /\ ~self.input
        /\ ~self.font

\* run() ended because the ready font file could not be read.
C12_Witness == log.panic = "read" /\ log.loads = 1 /\ pc = "panicked"

\* The slots run() empties (app.rs:177-182) are all empty.
SlotsEmpty ==
    /\ ~self.app.some /\ ~self.con /\ ~self.input
    /\ ~self.engine /\ ~self.program /\ ~self.gl

\* C13: once run() has moved the resources into the frame closure, run()
\* cannot be started again on that App, the slots it emptied stay empty, and
\* the closure keeps what it captured.
C13_RunOnce ==
    /\ [](closure.installed => (~ENABLED Run /\ SlotsEmpty))
    /\ [][closure.installed =>
            /\ closure'.installed
            /\ closure'.app = closure.app /\ closure'.gl = closure.gl
            /\ closure'.program = closure.program
            /\ closure'.engine = closure.engine /\ closure'.con = closure.con]_vars

\* A second frame callback has run on the closure, slots still empty.
C13_Witness ==
    /\ closure.installed /\ closure.app.some /\ closure.engine
    /\ last.n = 2
    /\ SlotsEmpty

Polls == Cardinality(CallsOf("load_async_images"))

\* C15: in a frame callback every engine.update call comes right after a
\* load_async_images call and every load_async_images call is right before
\* an update, so the callback polls as often as it updates, and not at all
\* when no tick is due.
C15_PollPerTick ==
    Returned =>
        /\ \A i \in CallsOf("update") :
              i > 1 /\ last.calls[i - 1].op = "load_async_images"
        /\ \A i \in CallsOf("load_async_images") :
              i < Len(last.calls) /\ last.calls[i + 1].op = "update"
        /\ Polls = Updates
        /\ Backlog <= 0 => Polls = 0

\* A callback with several ticks and as many polls, one render.
C15_Witness ==
    /\ Returned
    /\ Updates = 3 /\ Polls = 3
    /\ Cardinality(CallsOf("render")) = 1

\* C16: a callback that ran n < MAX_FRAMESKIP + 1 updates leaves next_tick at
\* its entry value plus n tick intervals; a callback took the
\* resynchronisation branch exactly if it ran MAX_FRAMESKIP + 1 updates, and
\* then leaves next_tick = time + tick_interval.
C16_ResyncOnlyAtCap ==
    Returned =>
        /\ Updates < MAX_FRAMESKIP + 1 =>
              next_tick = last.entry_tick + Updates * SKIP_TICKS
        /\ (last.skipped_frames = MAX_FRAMESKIP) <=> (Updates = MAX_FRAMESKIP + 1)
        /\ Updates = MAX_FRAMESKIP + 1 => next_tick = last.time + SKIP_TICKS

\* Exactly MAX_FRAMESKIP + 1 ticks were due and no more: the callback ran
\* them all, the increments brought next_tick up to the clock, and the
\* resynchronisation still moved it one interval further.
C16_Witness ==
    /\ Returned
    /\ Backlog = (MAX_FRAMESKIP + 1) * SKIP_TICKS
    /\ Updates = MAX_FRAMESKIP + 1
    /\ next_tick = last.time + SKIP_TICKS
    /\ next_tick # last.entry_tick + Updates * SKIP_TICKS

\* The platform's event queue of the latest frame callback.
Queue == closure.input

\* C17: a frame callback first calls input.on_frame, then input.on_event
\* for every queued event in delivery order, and only then runs its ticks, so
\* that every update is handed the input fed with the whole queue; render
\* comes after the last update, and the FPS step after render.
C17_InputBeforeTicks ==
    Returned =>
        /\ CallsOf("on_frame") = {1}
        /\ CallsOf("on_event") = 2..(1 + Len(Queue))
        /\ \A k \in 1..Len(Queue) : last.calls[1 + k].arg = <<Queue[k]>>
        /\ \A u \in CallsOf("update") \cup CallsOf("load_async_images") :
              u > 1 + Len(Queue)
        /\ \A u \in CallsOf("update") : last.calls[u].arg = Queue
        /\ \A r \in CallsOf("render") :
              /\ \A u \in CallsOf("update") \cup CallsOf("load_async_images") : u < r
              /\ \A f \in CallsOf("fps_step") : r < f
        /\ Cardinality(CallsOf("fps_step")) = 1

\* A callback fed two events that then ran two updates or more.
C17_Witness ==
    /\ Returned
    /\ Queue = <<"key", "mouse">>
    /\ last.calls[2].arg = <<"key">> /\ last.calls[3].arg = <<"mouse">>
    /\ Updates >= 2

\* The application state: 1 Uninitialized (no font was requested), 2
\* AwaitingFont (a font was requested and none is bound), 3 Running (a font
\* texture is bound).
AppState == IF self.font THEN 3 ELSE IF log.loads > 0 THEN 2 ELSE 1

\* The latest frame callback issued its draw.
Drew == Cardinality(CallsOf("render_primitive")) = 1

\* C18: the application state never moves backwards through
\* Uninitialized, AwaitingFont, Running; a bound font texture is never
\* unbound by any step; every frame callback that returns in Running has
\* issued a draw, and once a callback drew the next one draws as well.
C18_ForwardOnly ==
    /\ [][AppState' >= AppState]_vars
    /\ [][self.font => self'.font]_vars
    /\ [](Returned /\ self.font => Drew)
    /\ [][(Returned /\ Drew /\ log'.panic = "") => Drew']_vars

\* A later frame callback in Running that drew after running ticks and
\* polls.
C18_Witness ==
    /\ Returned /\ last.n = 2
    /\ AppState = 3 /\ Drew
    /\ Updates >= 1 /\ Polls >= 1

\* C19: when a frame callback returns, next_tick is not before the time
\* the callback sampled, so the next callback inherits no backlog; and if
\* the callback ran at least one update, next_tick is at most one tick
\* interval after that time.
C19_NextTickBrackets ==
    Returned =>
        /\ next_tick >= last.time
        /\ Updates >= 1 => next_tick <= last.time + SKIP_TICKS

\* A callback that entered with more backlog than the cap lets it run and
\* returned with next_tick exactly one tick interval ahead of its clock.
C19_Witness ==
    /\ Returned /\ Updates >= 1
    /\ Backlog > (MAX_FRAMESKIP + 1) * SKIP_TICKS
    /\ next_tick = last.time + SKIP_TICKS

\* The step in which run() executes: it leaves the setup phase.
RunStep == pc = "setup" /\ pc' # "setup"

\* C20: run() installs the frame closure only if load_font decoded the
\* font synchronously (so that the window, the input state, the program and
\* the GL context exist) and set_engine had supplied an engine.  If load_font
\* left the font as a pending asset, or no engine was set, run() aborts and no
\* frame callback ever runs; and when the font was decoded and the engine is
\* what is missing, the abort comes from the engine slot, after the window
\* was created.
C20_InstallNeedsFontAndEngine ==
    /\ [][RunStep =>
            /\ closure'.installed =>
                  /\ self.engine /\ closure'.engine
                  /\ closure'.app.some /\ closure'.input = <<>>
                  /\ closure'.program /\ closure'.gl
                  /\ log'.decoded = <<1>> /\ log'.windows = 1
            /\ (Len(self'.async_images) > 0 \/ ~self.engine) =>
                  ~closure'.installed /\ pc' = "panicked"
            /\ (~self.engine /\ log'.decoded # <<>>) =>
                  log'.panic = "take_engine" /\ log'.windows = 1]_vars
    /\ [](last.n > 0 => closure.installed)
    /\ [](pc = "panicked" /\ ~closure.installed => last.n = 0)
    /\ [](log.panic = "take_engine" => log.windows = 1 /\ log.decoded = <<1>>)

\* run() aborted on the empty engine slot with the window already created.
C20_Witness ==
    /\ pc = "panicked" /\ log.panic = "take_engine"
    /\ log.windows = 1 /\ ~closure.installed /\ last.n = 0
====
